---------------------------- MODULE Spec2Model ----------------------------
(***************************************************************************)
(* Vocabulary pipeline of the language-tutor backend: the regex pair       *)
(* extractor, the chat turn that persists extracted vocabulary             *)
(* (POST /api/conversations/:id/messages), conversation and vocabulary     *)
(* deletion, and the daily word set (GET /api/vocabulary/daily).           *)
(*                                                                         *)
(* A text is a sequence of characters; a character is a one-character      *)
(* string, except the non-ASCII ones, which the tools' lexer does not      *)
(* take and which are named: "a_macron" (U+0101), "A_macron" (U+0100),     *)
(* "endash" (U+2013), "emdash" (U+2014), "arrow" (U+2192).                 *)
(***************************************************************************)
EXTENDS Naturals, Integers, Sequences, FiniteSets, TLC

(***************************************************************************)
(* Character classes of the JavaScript regular expressions (no u flag).    *)
(***************************************************************************)
LowerSeq ==
    << "a", "b", "c", "d", "e", "f", "g", "h", "i", "j", "k", "l", "m",
       "n", "o", "p", "q", "r", "s", "t", "u", "v", "w", "x", "y", "z" >>

UpperSeq ==
    << "A", "B", "C", "D", "E", "F", "G", "H", "I", "J", "K", "L", "M",
       "N", "O", "P", "Q", "R", "S", "T", "U", "V", "W", "X", "Y", "Z" >>

Range(s) == { s[i] : i \in DOMAIN s }

\* \w : [A-Za-z0-9_]; a letter outside ASCII is no word character.
DigitChars == {"0", "1", "2", "3", "4", "5", "6", "7", "8", "9"}

WordChars == Range(LowerSeq) \cup Range(UpperSeq) \cup DigitChars \cup {"_"}

\* \s
SpaceChars == {" ", "\n", "\t"}

\* [-\u2013\u2014] of pattern2: hyphen, en dash, em dash
Separators == {"-", "endash", "emdash"}

\* the characters [^.,\n] of pattern2 excludes
StopChars == {".", ",", "\n"}

\* the character [^)] of pattern1 excludes
CloseParen == {")"}

\* String.prototype.toLowerCase, one character
LowerOfUpper ==
    [c \in Range(UpperSeq) |->
        LowerSeq[CHOOSE i \in DOMAIN UpperSeq : UpperSeq[i] = c]]

LowerChar(c) ==
    IF c \in DOMAIN LowerOfUpper THEN LowerOfUpper[c]
    ELSE IF c = "A_macron" THEN "a_macron" ELSE c

toLowerCase(s) == [i \in DOMAIN s |-> LowerChar(s[i])]

Max(a, b) == IF a >= b THEN a ELSE b

Min(a, b) == IF a <= b THEN a ELSE b

\* String.prototype.substring(start, end) with 0-based offsets
substring(text, start, end) == SubSeq(text, start + 1, end)

RECURSIVE SkipWhile(_, _, _)
\* the first 1-based position >= i whose character is outside S (Len+1 if none)
SkipWhile(text, i, S) ==
    IF i <= Len(text) /\ text[i] \in S THEN SkipWhile(text, i + 1, S) ELSE i

RECURSIVE SkipUntil(_, _, _)
\* the first 1-based position >= i whose character is in S (Len+1 if none)
SkipUntil(text, i, S) ==
    IF i <= Len(text) /\ text[i] \notin S THEN SkipUntil(text, i + 1, S) ELSE i

RECURSIVE TrimStart(_)
TrimStart(s) ==
    IF s /= << >> /\ Head(s) \in SpaceChars THEN TrimStart(Tail(s)) ELSE s

RECURSIVE TrimEnd(_)
TrimEnd(s) ==
    IF s /= << >> /\ s[Len(s)] \in SpaceChars
    THEN TrimEnd(SubSeq(s, 1, Len(s) - 1))
    ELSE s

\* String.prototype.trim
trim(s) == TrimEnd(TrimStart(s))

\* translation.split(/\s+/).length : one more than the number of maximal
\* whitespace runs
SplitLength(s) ==
    1 + Cardinality({ i \in DOMAIN s :
                        /\ s[i] \in SpaceChars
                        /\ (i = 1 \/ s[i - 1] \notin SpaceChars) })

NoMatch == [found |-> FALSE]

(***************************************************************************)
(* pattern1 = /(\w+)\s*\(([^)]+)\)/g tried at the 1-based position i.      *)
(* Every quantifier is greedy and no shorter choice can succeed where the  *)
(* greedy one fails, since the character after each run is outside the     *)
(* run's class.  index is 0-based as in JavaScript; last is the 0-based    *)
(* offset after the match (the new lastIndex).                             *)
(***************************************************************************)
Pattern1At(text, i) ==
    IF ~(i <= Len(text) /\ text[i] \in WordChars) THEN NoMatch
    ELSE LET j == SkipWhile(text, i, WordChars)
             k == SkipWhile(text, j, SpaceChars)
             m == SkipUntil(text, k + 1, CloseParen)
         IN  IF k <= Len(text) /\ text[k] = "(" /\ m > k + 1 /\ m <= Len(text)
             THEN [found |-> TRUE, index |-> i - 1, last |-> m,
                   g1 |-> SubSeq(text, i, j - 1),
                   g2 |-> SubSeq(text, k + 1, m - 1)]
             ELSE NoMatch

(***************************************************************************)
(* pattern2 = /(\w+)\s*[-\u2013\u2014]\s*([^.,\n]+)/g tried at position i.  *)
(* After the separator \s* is greedy; when no character is left for        *)
(* [^.,\n]+ it gives back whitespace, one character at a time, until the   *)
(* character given back is one [^.,\n] takes (a space or a tab, not a      *)
(* newline): the group is then that single character.                      *)
(***************************************************************************)
Pattern2At(text, i) ==
    IF ~(i <= Len(text) /\ text[i] \in WordChars) THEN NoMatch
    ELSE LET j == SkipWhile(text, i, WordChars)
             k == SkipWhile(text, j, SpaceChars)
             l == SkipWhile(text, k + 1, SpaceChars)
             e == SkipUntil(text, l, StopChars)
             back == { b \in (k + 1)..(l - 1) : text[b] \notin StopChars }
         IN  IF ~(k <= Len(text) /\ text[k] \in Separators) THEN NoMatch
             ELSE IF e > l
             THEN [found |-> TRUE, index |-> i - 1, last |-> e - 1,
                   g1 |-> SubSeq(text, i, j - 1),
                   g2 |-> SubSeq(text, l, e - 1)]
             ELSE IF back /= {}
             THEN LET b == CHOOSE x \in back : \A y \in back : y <= x
                  IN  [found |-> TRUE, index |-> i - 1, last |-> b,
                       g1 |-> SubSeq(text, i, j - 1),
                       g2 |-> SubSeq(text, b, b)]
             ELSE NoMatch

RECURSIVE Exec1(_, _)
\* pattern1.exec(text) with pattern1.lastIndex = lastIndex (0-based)
Exec1(text, lastIndex) ==
    IF lastIndex >= Len(text) THEN NoMatch
    ELSE LET m == Pattern1At(text, lastIndex + 1)
         IN  IF m.found THEN m ELSE Exec1(text, lastIndex + 1)

RECURSIVE Exec2(_, _)
\* pattern2.exec(text) with pattern2.lastIndex = lastIndex (0-based)
Exec2(text, lastIndex) ==
    IF lastIndex >= Len(text) THEN NoMatch
    ELSE LET m == Pattern2At(text, lastIndex + 1)
         IN  IF m.found THEN m ELSE Exec2(text, lastIndex + 1)

\* the characters of context kept on each side of a match
ContextRadius == 50

\* `${word.toLowerCase()}-${translation.toLowerCase()}`
PairKey(word, translation) ==
    toLowerCase(word) \o <<"-">> \o toLowerCase(translation)

\* the context of a match: 50 characters on each side, clamped, trimmed
MatchContext(text, m) ==
    LET start == Max(0, m.index - ContextRadius)
        end   == Min(Len(text), m.last + ContextRadius)
    IN  trim(substring(text, start, end))

\* the loop body without the seen set
AcceptUnseen(text, m, acc) ==
    LET word        == trim(m.g1)
        translation == trim(m.g2)
    IN  IF Len(word) > 1 /\ Len(translation) > 1
        THEN [vocabulary |-> Append(acc.vocabulary,
                                [latvianWord |-> word,
                                 englishTranslation |-> translation,
                                 context |-> MatchContext(text, m)]),
              seen |-> acc.seen]
        ELSE acc

\* the loop body without the length test
AcceptAnyLength(text, m, acc) ==
    LET word        == trim(m.g1)
        translation == trim(m.g2)
        key         == PairKey(word, translation)
    IN  IF key \notin acc.seen
        THEN [vocabulary |-> Append(acc.vocabulary,
                                [latvianWord |-> word,
                                 englishTranslation |-> translation,
                                 context |-> MatchContext(text, m)]),
              seen |-> acc.seen \cup {key}]
        ELSE acc

\* the body of both loops after the token check: push unless seen or short
Accept(text, m, acc) ==
    LET word        == trim(m.g1)
        translation == trim(m.g2)
        key         == PairKey(word, translation)
    IN  IF key \notin acc.seen /\ Len(word) > 1 /\ Len(translation) > 1
        THEN [vocabulary |-> Append(acc.vocabulary,
                                [latvianWord |-> word,
                                 englishTranslation |-> translation,
                                 context |-> MatchContext(text, m)]),
              seen |-> acc.seen \cup {key}]
        ELSE acc

\* the token check of the pattern2 loop: more than 3 tokens, continue
MaxTokens == 3

\* a token check that lets 2 tokens through and not 3 (>= for >)
TooManyTokensFromThree(translation) == SplitLength(translation) >= MaxTokens

TooManyTokens(translation) == SplitLength(translation) > MaxTokens

RECURSIVE Loop1(_, _, _)
\* while ((match = pattern1.exec(text)) !== null) { ... }
Loop1(text, lastIndex, acc) ==
    LET m == Exec1(text, lastIndex)
    IN  IF ~m.found THEN acc
        ELSE Loop1(text, m.last, Accept(text, m, acc))

RECURSIVE Loop2(_, _, _)
\* while ((match = pattern2.exec(text)) !== null) { ... }
Loop2(text, lastIndex, acc) ==
    LET m == Exec2(text, lastIndex)
    IN  IF ~m.found THEN acc
        ELSE Loop2(text, m.last,
                   IF TooManyTokens(trim(m.g2)) THEN acc
                   ELSE Accept(text, m, acc))

\* function extractVocabulary(text: string): VocabularyPair[]
extractVocabulary(text) ==
    Loop2(text, 0, Loop1(text, 0, [vocabulary |-> << >>, seen |-> {}])).vocabulary

MockResponse ==
    << "T", "h", "a", "t", "'", "s", " ", "g", "r", "e", "a", "t",
    "!", " ", "Y", "o", "u", "'", "r", "e", " ", "l", "e", "a",
    "r", "n", "i", "n", "g", " ", "w", "e", "l", "l", ".", " ",
    "H", "e", "r", "e", "'", "s", " ", "a", " ", "u", "s", "e",
    "f", "u", "l", " ", "w", "o", "r", "d", ":", " ", "w", "o",
    "r", "d", " ", "(", "t", "r", "a", "n", "s", "l", "a", "t",
    "i", "o", "n", ")", ".", " ", "K", "e", "e", "p", " ", "p",
    "r", "a", "c", "t", "i", "c", "i", "n", "g", "!" >>

(***************************************************************************)
(* Bounds of the model.                                                    *)
(***************************************************************************)
\* conversations ever created
MaxConvs == 2

\* POST /api/conversations/:id/messages requests ever issued
MaxPosts == 2

\* GET /api/vocabulary/daily requests ever issued
MaxDaily == 3

\* calendar days the clock runs through
MaxDay == 2

Users == {"u1", "u2"}

ConvIds == 1..MaxConvs

Posts == 1..MaxPosts

Dailies == 1..MaxDaily

Days == 1..MaxDay

(***************************************************************************)
(* Tutor responses the text-generation call may return for a chat turn.    *)
(***************************************************************************)
\* "suns (dog)"
TextParen == << "s", "u", "n", "s", " ", "(", "d", "o", "g", ")" >>

\* "Suns (Dog)"
TextCaps == << "S", "u", "n", "s", " ", "(", "D", "o", "g", ")" >>

\* "Suns - dog, suns (dog), maja (house)"
TextTwice ==
    << "S", "u", "n", "s", " ", "-", " ", "d", "o", "g", ",", " ", "s", "u", "n", "s", " ", "(", "d", "o", "g", ")", ",", " " >> \o
    << "m", "a", "j", "a", " ", "(", "h", "o", "u", "s", "e", ")" >>

\* "Labi"
TextPlain == << "L", "a", "b", "i" >>

TutorTexts == {TextParen, TextCaps, TextTwice, TextPlain}

\* no text: the value of a text variable that holds none
NoText == <<"(none)">>

\* extractVocabulary of each text a chat turn can carry, computed once
Extracted == [t \in TutorTexts \cup {MockResponse} |-> extractVocabulary(t)]

(***************************************************************************)
(* State.  Rows are records; a table is the set of its rows.  A uuid is    *)
(* named after what generated it: a conversation by its creation number,   *)
(* a message by <<request, role>>, a vocabulary row by <<request, k>>,     *)
(* a daily row by <<request, k>>.  lastMessageAt holds the request that    *)
(* wrote it last (0: NULL).                                                *)
(***************************************************************************)
VARIABLES
    conversations,     \* table conversations: [id, userId, lastMessageAt]
    nextConv,          \* conversations created so far
    messages,          \* table messages: [id, conversationId, role, content]
    vocabulary,        \* table vocabulary
    post,              \* per message request: its position and locals
    prevVocab,         \* history: per conversation, the text of the vocabulary
                       \* step that completed last, NoText once a row of the
                       \* conversation was deleted or a step threw since
    today,             \* the calendar day of new Date()
    dailyVocabulary,   \* table daily_vocabulary
    daily,             \* per daily request: its position and locals
    scan               \* one call of extractVocabulary: its position and locals

chatVars == <<conversations, nextConv, messages, vocabulary, post, prevVocab>>

dailyVars == <<today, dailyVocabulary, daily>>

vars == <<conversations, nextConv, messages, vocabulary, post, prevVocab,
          today, dailyVocabulary, daily, scan>>

IdlePost ==
    [pc |-> "idle", id |-> 0, userId |-> "", aiResponse |-> NoText,
     newVocabulary |-> << >>, vocabThrew |-> FALSE, inserted |-> 0,
     status |-> 0, error |-> "", messageId |-> << >>]

\* no call of extractVocabulary under way
NoScan ==
    [pc |-> "idle", text |-> NoText, lastIndex |-> 0, vocabulary |-> << >>,
     seen |-> {}, starts |-> << >>]

\* select().from(conversations).where(eq(conversations.id, id)) -> result[0]
ConversationById(id) == { c \in conversations : c.id = id }

\* a select without its where clause: the rows of every conversation
ExistingVocabEveryConversation(id) == vocabulary

\* select().from(vocabulary).where(eq(vocabulary.conversationId, id))
ExistingVocab(id) == { v \in vocabulary : v.conversationId = id }

\* new Set(existingVocab.map(v => `${lower(word)}-${lower(translation)}`))
ExistingKeys(existingVocab) ==
    { PairKey(v.latvianWord, v.englishTranslation) : v \in existingVocab }

\* a filter that keeps every pair (the dedup against storage left out)
NewVocabularyUnfiltered(vocabularyPairs, existingVocab) == vocabularyPairs

\* a filter that compares the keys as spelled (toLowerCase left out)
NewVocabularyCaseSensitive(vocabularyPairs, existingVocab) ==
    SelectSeq(vocabularyPairs,
              LAMBDA pair :
                  \A v \in existingVocab :
                      \/ v.latvianWord /= pair.latvianWord
                      \/ v.englishTranslation /= pair.englishTranslation)

\* vocabularyPairs.filter(pair => !existingKeys.has(key of pair))
NewVocabulary(vocabularyPairs, existingVocab) ==
    SelectSeq(vocabularyPairs,
              LAMBDA pair : PairKey(pair.latvianWord, pair.englishTranslation)
                                \notin ExistingKeys(existingVocab))

\* an insert that skips a pair the conversation holds by now (a unique
\* index with "on conflict do nothing")
VocabularyRowsOnConflictSkip(r, id, userId, newVocabulary) ==
    { [id |-> <<r, k>>, conversationId |-> id, userId |-> userId,
       latvianWord |-> newVocabulary[k].latvianWord,
       englishTranslation |-> newVocabulary[k].englishTranslation,
       context |-> newVocabulary[k].context] :
      k \in { n \in DOMAIN newVocabulary :
                 PairKey(newVocabulary[n].latvianWord,
                         newVocabulary[n].englishTranslation)
                     \notin ExistingKeys(ExistingVocab(id)) } }

\* newVocabulary.map(pair => ({conversationId: id, userId, ...pair}))
VocabularyRows(r, id, userId, newVocabulary) ==
    { [id |-> <<r, k>>, conversationId |-> id, userId |-> userId,
       latvianWord |-> newVocabulary[k].latvianWord,
       englishTranslation |-> newVocabulary[k].englishTranslation,
       context |-> newVocabulary[k].context] : k \in DOMAIN newVocabulary }

\* the row insert(messages).values({conversationId, role, content}) adds
MessageRow(r, id, role, content) ==
    [id |-> <<r, role>>, conversationId |-> id, role |-> role,
     content |-> content]

\* the user's message text (request.body.message, or the transcription)
UserText == <<"?">>

\* requests are numbered in the order they arrive
Started(reqs, r) == IF r = 0 THEN TRUE ELSE reqs[r].pc /= "idle"

\* reply.status(code).send({error}) or the returned body
Respond(r, code, error) ==
    post' = [post EXCEPT ![r].pc = "done", ![r].status = code,
                         ![r].error = error, ![r].newVocabulary = << >>]

(***************************************************************************)
(* POST /api/conversations -- one insert.                                  *)
(***************************************************************************)
CreateConversation(u) ==
    /\ nextConv < MaxConvs
    /\ nextConv' = nextConv + 1
    /\ conversations' = conversations \cup
           {[id |-> nextConv + 1, userId |-> u, lastMessageAt |-> 0]}
    /\ UNCHANGED <<messages, vocabulary, post, prevVocab>>
    /\ UNCHANGED <<dailyVars, scan>>

(***************************************************************************)
(* POST /api/conversations/:id/messages.  The handler is cut at the awaits *)
(* that touch a table; the awaits in between (reading the multipart body,  *)
(* the history select whose rows only feed the prompt, the text-generation *)
(* call, the audio upload) touch no table and belong to the step before    *)
(* the next write.                                                         *)
(***************************************************************************)
\* a handler without the owner check (no 403)
PostStartNoOwnerCheck(r, u, id, audio) ==
    /\ post[r].pc = "idle"
    /\ Started(post, r - 1)
    /\ LET found == ConversationById(id)
           p == [post[r] EXCEPT !.id = id, !.userId = u]
       IN  IF found = {}
           THEN post' = [post EXCEPT ![r] = [p EXCEPT !.pc = "done",
                    !.status = 404, !.error = "Conversation not found"]]
           ELSE IF audio = "tooLarge"
           THEN post' = [post EXCEPT ![r] = [p EXCEPT !.pc = "done",
                    !.status = 413, !.error = "File size limit exceeded"]]
           ELSE IF audio = "transcribeThrows"
           THEN post' = [post EXCEPT ![r] = [p EXCEPT !.pc = "done",
                    !.status = 500, !.error = "Failed to transcribe audio"]]
           ELSE post' = [post EXCEPT ![r] = [p EXCEPT !.pc = "saveUser"]]
    /\ UNCHANGED <<conversations, nextConv, messages, vocabulary, prevVocab>>
    /\ UNCHANGED <<dailyVars, scan>>

\* lines 399-477: look the conversation up, check the owner, take the audio
PostStart(r, u, id, audio) ==
    /\ post[r].pc = "idle"
    /\ Started(post, r - 1)
    /\ LET found == ConversationById(id)
           p == [post[r] EXCEPT !.id = id, !.userId = u]
       IN  IF found = {}
           THEN post' = [post EXCEPT ![r] = [p EXCEPT !.pc = "done",
                    !.status = 404, !.error = "Conversation not found"]]
           ELSE IF \E c \in found : c.userId /= u
           THEN post' = [post EXCEPT ![r] = [p EXCEPT !.pc = "done",
                    !.status = 403, !.error = "Not authorized"]]
           ELSE IF audio = "tooLarge"
           THEN post' = [post EXCEPT ![r] = [p EXCEPT !.pc = "done",
                    !.status = 413, !.error = "File size limit exceeded"]]
           ELSE IF audio = "transcribeThrows"
           THEN post' = [post EXCEPT ![r] = [p EXCEPT !.pc = "done",
                    !.status = 500, !.error = "Failed to transcribe audio"]]
           ELSE post' = [post EXCEPT ![r] = [p EXCEPT !.pc = "saveUser"]]
    /\ UNCHANGED <<conversations, nextConv, messages, vocabulary, prevVocab>>
    /\ UNCHANGED <<dailyVars, scan>>

\* a handler that goes on to the generation without storing the user
\* message
PostSaveUserNoInsert(r) ==
    /\ post[r].pc = "saveUser"
    /\ IF ConversationById(post[r].id) = {}
       THEN Respond(r, 500, "Internal Server Error")
       ELSE post' = [post EXCEPT ![r].pc = "saveAssistant"]
    /\ UNCHANGED <<conversations, nextConv, messages, vocabulary, prevVocab>>
    /\ UNCHANGED <<dailyVars, scan>>

\* lines 479-489: insert the user message, outside the try block; the
\* foreign key rejects it once the conversation is gone
PostSaveUser(r) ==
    /\ post[r].pc = "saveUser"
    /\ IF ConversationById(post[r].id) = {}
       THEN /\ Respond(r, 500, "Internal Server Error")
            /\ UNCHANGED messages
       ELSE /\ messages' = messages \cup
                   {MessageRow(r, post[r].id, "user", UserText)}
            /\ post' = [post EXCEPT ![r].pc = "saveAssistant"]
    /\ UNCHANGED <<conversations, nextConv, vocabulary, prevVocab>>
    /\ UNCHANGED <<dailyVars, scan>>

\* a handler without the fallback: what the call left is used as it is
AiResponseNoFallback(generated, callThrows) == generated

\* lines 516-529: the tutor's text, or the mock response when the call throws
AiResponse(generated, callThrows) ==
    IF callThrows THEN MockResponse ELSE generated

\* lines 491-541: history select, text generation (with its fallback),
\* insert of the assistant message; a throw of either statement, or the
\* foreign key, ends in the outer catch
PostSaveAssistant(r, generated, callThrows, dbThrows) ==
    /\ post[r].pc = "saveAssistant"
    /\ IF dbThrows \/ ConversationById(post[r].id) = {}
       THEN /\ Respond(r, 500, "Failed to generate response")
            /\ UNCHANGED messages
       ELSE /\ messages' = messages \cup
                   {MessageRow(r, post[r].id, "assistant",
                               AiResponse(generated, callThrows))}
            /\ post' = [post EXCEPT ![r].pc = "vocabRead",
                   ![r].aiResponse = AiResponse(generated, callThrows),
                   ![r].messageId = <<r, "assistant">>]
    /\ UNCHANGED <<conversations, nextConv, vocabulary, prevVocab>>
    /\ UNCHANGED <<dailyVars, scan>>

\* the vocabulary throw left to the outer catch (the inner try left out)
VocabRethrown(r) ==
    post' = [post EXCEPT ![r].pc = "done", ![r].vocabThrew = TRUE,
                         ![r].status = 500,
                         ![r].error = "Failed to generate response",
                         ![r].newVocabulary = << >>]

\* lines 579-581: catch (vocabError): log, go on to the audio and the update
VocabCaught(r) ==
    post' = [post EXCEPT ![r].pc = "touch", ![r].vocabThrew = TRUE,
                         ![r].newVocabulary = << >>]

\* lines 544-563: extract, read the conversation's rows, filter
PostVocabRead(r, dbThrows) ==
    /\ post[r].pc = "vocabRead"
    /\ LET vocabularyPairs == Extracted[post[r].aiResponse]
           newVocabulary == NewVocabulary(vocabularyPairs,
                                          ExistingVocab(post[r].id))
       IN  IF Len(vocabularyPairs) = 0
           THEN /\ post' = [post EXCEPT ![r].pc = "touch"]
                /\ prevVocab' = [prevVocab EXCEPT
                                    ![post[r].id] = post[r].aiResponse]
           ELSE IF dbThrows
           THEN /\ VocabCaught(r)
                /\ prevVocab' = [prevVocab EXCEPT ![post[r].id] = NoText]
           ELSE IF Len(newVocabulary) = 0
           THEN /\ post' = [post EXCEPT ![r].pc = "touch"]
                /\ prevVocab' = [prevVocab EXCEPT
                                    ![post[r].id] = post[r].aiResponse]
           ELSE /\ post' = [post EXCEPT ![r].pc = "vocabInsert",
                                        ![r].newVocabulary = newVocabulary]
                /\ UNCHANGED prevVocab
    /\ UNCHANGED <<conversations, nextConv, messages, vocabulary>>
    /\ UNCHANGED <<dailyVars, scan>>

\* lines 565-581: one insert of all new rows; a throw (the statement's, or
\* the foreign key's once the conversation is gone) is caught and logged
PostVocabInsert(r, dbThrows) ==
    /\ post[r].pc = "vocabInsert"
    /\ IF dbThrows \/ ConversationById(post[r].id) = {}
       THEN /\ VocabCaught(r)
            /\ prevVocab' = [prevVocab EXCEPT ![post[r].id] = NoText]
            /\ UNCHANGED vocabulary
       ELSE /\ vocabulary' = vocabulary \cup
                   VocabularyRows(r, post[r].id, post[r].userId,
                                  post[r].newVocabulary)
            /\ post' = [post EXCEPT ![r].pc = "touch",
                           ![r].inserted = Len(post[r].newVocabulary),
                           ![r].newVocabulary = << >>]
            /\ prevVocab' = [prevVocab EXCEPT
                                ![post[r].id] = post[r].aiResponse]
    /\ UNCHANGED <<conversations, nextConv, messages>>
    /\ UNCHANGED <<dailyVars, scan>>

\* a handler whose outer catch undoes the turn: it deletes the messages
\* the request stored before it answers 500
PostTouchUndoes(r, dbThrows) ==
    /\ post[r].pc = "touch"
    /\ IF dbThrows
       THEN /\ Respond(r, 500, "Failed to generate response")
            /\ messages' = { m \in messages : m.id[1] /= r }
            /\ UNCHANGED conversations
       ELSE /\ conversations' =
                   { IF c.id = post[r].id
                     THEN [c EXCEPT !.lastMessageAt = r] ELSE c
                     : c \in conversations }
            /\ Respond(r, 200, "")
            /\ UNCHANGED messages
    /\ UNCHANGED <<nextConv, vocabulary, prevVocab>>
    /\ UNCHANGED <<dailyVars, scan>>

\* lines 583-641: the audio upload (caught), the lastMessageAt update, the
\* response; a throw of the update ends in the outer catch
PostTouch(r, dbThrows) ==
    /\ post[r].pc = "touch"
    /\ IF dbThrows
       THEN /\ Respond(r, 500, "Failed to generate response")
            /\ UNCHANGED conversations
       ELSE /\ conversations' =
                   { IF c.id = post[r].id
                     THEN [c EXCEPT !.lastMessageAt = r] ELSE c
                     : c \in conversations }
            /\ Respond(r, 200, "")
    /\ UNCHANGED <<nextConv, messages, vocabulary, prevVocab>>
    /\ UNCHANGED <<dailyVars, scan>>

(***************************************************************************)
(* GET /api/conversations/:id/messages changes no row: its response is a   *)
(* function of the tables, 404 without the conversation, 403 for another   *)
(* user's, else the messages that reference it.                            *)
(***************************************************************************)
GetMessages(u, id) ==
    IF ConversationById(id) = {}
    THEN [status |-> 404, error |-> "Conversation not found", messages |-> {}]
    ELSE IF \E c \in ConversationById(id) : c.userId /= u
    THEN [status |-> 403, error |-> "Not authorized", messages |-> {}]
    ELSE [status |-> 200, error |-> "",
          messages |-> { m \in messages : m.conversationId = id }]

(***************************************************************************)
(* DELETE /api/conversations/:id, taken at its delete statement: the rows  *)
(* of messages and vocabulary that reference the conversation go with it   *)
(* (onDelete: 'cascade').  A 404 or 403 changes nothing.                   *)
(***************************************************************************)
\* a handler that deletes for every user (the owner test left out)
DeleteConversationStatusAnyUser(u, id) ==
    IF ConversationById(id) = {} THEN 404 ELSE 200

\* lines 690-710: the status the handler answers with
DeleteConversationStatus(u, id) ==
    IF ConversationById(id) = {} THEN 404
    ELSE IF \E c \in ConversationById(id) : c.userId /= u THEN 403
    ELSE 200

\* a delete that leaves the rows that reference the conversation (no
\* cascade)
DeleteConversationNoCascade(u, id) ==
    /\ DeleteConversationStatus(u, id) = 200
    /\ conversations' = { c \in conversations : c.id /= id }
    /\ prevVocab' = [prevVocab EXCEPT ![id] = NoText]
    /\ UNCHANGED <<nextConv, post, messages, vocabulary>>
    /\ UNCHANGED <<dailyVars, scan>>

\* a delete that removes the messages and the vocabulary and keeps the
\* conversation row
DeleteConversationKeepsRow(u, id) ==
    /\ DeleteConversationStatus(u, id) = 200
    /\ messages' = { m \in messages : m.conversationId /= id }
    /\ vocabulary' = { v \in vocabulary : v.conversationId /= id }
    /\ prevVocab' = [prevVocab EXCEPT ![id] = NoText]
    /\ UNCHANGED <<conversations, nextConv, post>>
    /\ UNCHANGED <<dailyVars, scan>>

DeleteConversation(u, id) ==
    /\ DeleteConversationStatus(u, id) = 200
    /\ conversations' = { c \in conversations : c.id /= id }
    /\ messages' = { m \in messages : m.conversationId /= id }
    /\ vocabulary' = { v \in vocabulary : v.conversationId /= id }
    /\ prevVocab' = [prevVocab EXCEPT ![id] = NoText]
    /\ UNCHANGED <<nextConv, post>>
    /\ UNCHANGED <<dailyVars, scan>>

(***************************************************************************)
(* DELETE /api/vocabulary/:id, taken at its delete statement.              *)
(***************************************************************************)
\* select().from(vocabulary).where(eq(vocabulary.id, id)) -> result[0]
VocabularyById(id) == { v \in vocabulary : v.id = id }

\* a handler that deletes for every user (the owner test left out)
DeleteVocabularyStatusAnyUser(u, id) ==
    IF VocabularyById(id) = {} THEN 404 ELSE 200

\* lines 479-499: the status the handler answers with
DeleteVocabularyStatus(u, id) ==
    IF VocabularyById(id) = {} THEN 404
    ELSE IF \E v \in VocabularyById(id) : v.userId /= u THEN 403
    ELSE 200

\* a delete by the owner's userId in place of the row's id
\* (where(eq(vocabulary.userId, userId)))
DeleteVocabularyOfUser(u, v) ==
    /\ v \in vocabulary
    /\ DeleteVocabularyStatus(u, v.id) = 200
    /\ vocabulary' = { w \in vocabulary : w.userId /= u }
    /\ prevVocab' = [prevVocab EXCEPT ![v.conversationId] = NoText]
    /\ UNCHANGED <<conversations, nextConv, messages, post>>
    /\ UNCHANGED <<dailyVars, scan>>

DeleteVocabulary(u, v) ==
    /\ v \in vocabulary
    /\ DeleteVocabularyStatus(u, v.id) = 200
    /\ vocabulary' = vocabulary \ {v}
    /\ prevVocab' = [prevVocab EXCEPT ![v.conversationId] = NoText]
    /\ UNCHANGED <<conversations, nextConv, messages, post>>
    /\ UNCHANGED <<dailyVars, scan>>

(***************************************************************************)
(* GET /api/vocabulary and GET /api/conversations/:id/vocabulary change no *)
(* row: their responses are functions of the tables.                       *)
(***************************************************************************)
\* select().from(vocabulary).where(eq(vocabulary.userId, userId))
GetVocabulary(u) ==
    [status |-> 200, items |-> { v \in vocabulary : v.userId = u }]

\* a handler that returns the rows of a conversation to every user
GetConversationVocabularyAnyUser(u, id) ==
    IF ConversationById(id) = {}
    THEN [status |-> 404, items |-> {}]
    ELSE [status |-> 200,
          items |-> { v \in vocabulary : v.conversationId = id }]

\* the conversation looked up and its owner checked, then
\* select().from(vocabulary).where(eq(vocabulary.conversationId, id))
GetConversationVocabulary(u, id) ==
    IF ConversationById(id) = {}
    THEN [status |-> 404, items |-> {}]
    ELSE IF \E c \in ConversationById(id) : c.userId /= u
    THEN [status |-> 403, items |-> {}]
    ELSE [status |-> 200,
          items |-> { v \in vocabulary : v.conversationId = id }]

(***************************************************************************)
(* GET /api/vocabulary/daily.                                              *)
(***************************************************************************)
\* existingDaily.length >= 5
DailyCacheThreshold == 5

\* generatedData.words.length !== 5
DailySetSize == 5

IdleDaily ==
    [pc |-> "idle", userId |-> "", date |-> 0, calls |-> 0, inserted |-> {},
     status |-> 0, error |-> "", topic |-> "", words |-> {}]

FoodWords ==
    << [latvian |-> "maize", english |-> "bread", context |-> "c1"],
       [latvian |-> "piens", english |-> "milk", context |-> "c2"],
       [latvian |-> "siers", english |-> "cheese", context |-> "c3"],
       [latvian |-> "sals", english |-> "salt", context |-> "c4"],
       [latvian |-> "zupa", english |-> "soup", context |-> "c5"] >>

TravelWords ==
    << [latvian |-> "vilciens", english |-> "train", context |-> "c1"],
       [latvian |-> "biete", english |-> "ticket", context |-> "c2"],
       [latvian |-> "osta", english |-> "port", context |-> "c3"],
       [latvian |-> "karte", english |-> "map", context |-> "c4"],
       [latvian |-> "soma", english |-> "bag", context |-> "c5"] >>

\* an entry without "latvian": the column is NOT NULL (NoValue: undefined)
NoValue == "undefined"

BrokenWords ==
    [FoodWords EXCEPT ![3] = [latvian |-> NoValue, english |-> "cheese",
                              context |-> "c3"]]

(***************************************************************************)
(* What the text-generation call may do for the daily prompt: throw, or    *)
(* return a text.  A text that parses is given by the parsed value: topic  *)
(* ("" stands for a missing or empty topic), whether words is an array,    *)
(* and its entries.                                                        *)
(***************************************************************************)
Parsed(topic, isArray, words) ==
    [kind |-> "json", topic |-> topic, isArray |-> isArray, words |-> words]

DailyOutcomes ==
    { [kind |-> "throws", topic |-> "", isArray |-> FALSE, words |-> << >>],
      [kind |-> "notJson", topic |-> "", isArray |-> FALSE, words |-> << >>],
      Parsed("Food", TRUE, FoodWords),
      Parsed("Travel", TRUE, TravelWords),
      Parsed("", TRUE, FoodWords),
      Parsed("Food", FALSE, << >>),
      Parsed("Food", TRUE, SubSeq(FoodWords, 1, 4)),
      Parsed("Food", TRUE, FoodWords \o <<TravelWords[1]>>),
      Parsed("Food", TRUE, BrokenWords) }

\* a select that leaves the user out of the where clause
ExistingDailyAnyUser(userId, date) ==
    { w \in dailyVocabulary : w.date = date }

\* select().from(dailyVocabulary).where(and(eq(userId), eq(date)))
ExistingDaily(userId, date) ==
    { w \in dailyVocabulary : w.userId = userId /\ w.date = date }

\* the cache test off by one (> for >=)
CacheHitAboveThreshold(existingDaily) ==
    Cardinality(existingDaily) > DailyCacheThreshold

\* existingDaily.length >= 5
CacheHit(existingDaily) == Cardinality(existingDaily) >= DailyCacheThreshold

\* a validation that takes an array of 5 or more (< for !==)
ValidStructureAtLeast(data) ==
    /\ data.topic /= ""
    /\ data.isArray
    /\ Len(data.words) >= DailySetSize

\* a validation without the topic test
ValidStructureNoTopic(data) ==
    /\ data.isArray
    /\ Len(data.words) = DailySetSize

\* the negation of line 308: topic set, words an array of exactly 5
ValidStructure(data) ==
    /\ data.topic /= ""
    /\ data.isArray
    /\ Len(data.words) = DailySetSize

\* an insert that stores nothing when the user's day has rows by now (a
\* unique index on user and date with "on conflict do nothing")
DailyRowsOnConflictSkip(r, userId, date, data) ==
    IF ExistingDaily(userId, date) /= {} THEN {}
    ELSE { [id |-> <<r, k>>, userId |-> userId,
            latvianWord |-> data.words[k].latvian,
            englishTranslation |-> data.words[k].english,
            context |-> data.words[k].context,
            topic |-> data.topic, date |-> date] : k \in DOMAIN data.words }

\* generatedData.words.map(word => ({userId, latvianWord: word.latvian, ...}))
DailyRows(r, userId, date, data) ==
    { [id |-> <<r, k>>, userId |-> userId,
       latvianWord |-> data.words[k].latvian,
       englishTranslation |-> data.words[k].english,
       context |-> data.words[k].context,
       topic |-> data.topic, date |-> date] : k \in DOMAIN data.words }

\* the insert statement rejects a row whose NOT NULL column has no value
InsertRejected(rows) ==
    \E w \in rows : w.latvianWord = NoValue \/ w.englishTranslation = NoValue

DailyRespond(r, u, d, code, error, topic, words, inserted, calls) ==
    daily' = [daily EXCEPT ![r] =
                 [pc |-> "done", userId |-> u, date |-> d, calls |-> calls,
                  inserted |-> inserted, status |-> code, error |-> error,
                  topic |-> topic, words |-> words]]

\* a query that remembers a failure: once a request of the user's day has
\* answered 500, later ones answer 500 without a generation call
DailyQueryFailureCached(r, u, dbThrows) ==
    /\ daily[r].pc = "idle"
    /\ Started(daily, r - 1)
    /\ LET existingDaily == ExistingDaily(u, today)
           failed == \E q \in Dailies :
                         /\ daily[q].pc = "done" /\ daily[q].status = 500
                         /\ daily[q].userId = u /\ daily[q].date = today
       IN  IF dbThrows \/ failed
           THEN DailyRespond(r, u, today, 500,
                             "Failed to get daily vocabulary", "", {}, {}, 0)
           ELSE IF CacheHit(existingDaily)
           THEN \E first \in existingDaily :
                    DailyRespond(r, u, today, 200, "", first.topic,
                                 { w.id : w \in existingDaily }, {}, 0)
           ELSE daily' = [daily EXCEPT ![r].pc = "generate",
                              ![r].userId = u, ![r].date = today]
    /\ UNCHANGED <<today, dailyVocabulary>>
    /\ UNCHANGED <<chatVars, scan>>

\* lines 232-273: todayString, the select, and the cache-hit response, whose
\* topic is that of existingDaily[0]: the select is unordered, any row
DailyQuery(r, u, dbThrows) ==
    /\ daily[r].pc = "idle"
    /\ Started(daily, r - 1)
    /\ LET existingDaily == ExistingDaily(u, today)
       IN  IF dbThrows
           THEN DailyRespond(r, u, today, 500,
                             "Failed to get daily vocabulary", "", {}, {}, 0)
           ELSE IF CacheHit(existingDaily)
           THEN \E first \in existingDaily :
                    DailyRespond(r, u, today, 200, "", first.topic,
                                 { w.id : w \in existingDaily }, {}, 0)
           ELSE daily' = [daily EXCEPT ![r].pc = "generate",
                              ![r].userId = u, ![r].date = today]
    /\ UNCHANGED <<today, dailyVocabulary>>
    /\ UNCHANGED <<chatVars, scan>>

\* a handler that calls the generator a second time when the first answer
\* cannot be used, and stores what the second call returns
DailyGenerateRetry(r, out, dbThrows) ==
    /\ daily[r].pc = "generate"
    /\ LET u == daily[r].userId
           d == daily[r].date
           usable == out.kind \notin {"throws", "notJson"} /\ ValidStructure(out)
           data == IF usable THEN out ELSE Parsed("Food", TRUE, FoodWords)
           rows == DailyRows(r, u, d, data)
       IN  IF dbThrows \/ InsertRejected(rows)
           THEN /\ DailyRespond(r, u, d, 500,
                       "Failed to get daily vocabulary", "", {}, {},
                       IF usable THEN 1 ELSE 2)
                /\ UNCHANGED dailyVocabulary
           ELSE /\ dailyVocabulary' = dailyVocabulary \cup rows
                /\ DailyRespond(r, u, d, 200, "", data.topic,
                       { w.id : w \in rows }, { w.id : w \in rows },
                       IF usable THEN 1 ELSE 2)
    /\ UNCHANGED today
    /\ UNCHANGED <<chatVars, scan>>

\* lines 275-343: the generation call, JSON.parse, the validation, the
\* insert of all rows in one statement, the response
DailyGenerate(r, out, dbThrows) ==
    /\ daily[r].pc = "generate"
    /\ LET u == daily[r].userId
           d == daily[r].date
           rows == DailyRows(r, u, d, out)
       IN  IF out.kind = "throws"
           THEN /\ DailyRespond(r, u, d, 500,
                       "Failed to get daily vocabulary", "", {}, {}, 1)
                /\ UNCHANGED dailyVocabulary
           ELSE IF out.kind = "notJson"
           THEN /\ DailyRespond(r, u, d, 500,
                       "Failed to parse AI response", "", {}, {}, 1)
                /\ UNCHANGED dailyVocabulary
           ELSE IF ~ValidStructure(out)
           THEN /\ DailyRespond(r, u, d, 500,
                       "Invalid AI response format", "", {}, {}, 1)
                /\ UNCHANGED dailyVocabulary
           ELSE IF dbThrows \/ InsertRejected(rows)
           THEN /\ DailyRespond(r, u, d, 500,
                       "Failed to get daily vocabulary", "", {}, {}, 1)
                /\ UNCHANGED dailyVocabulary
           ELSE /\ dailyVocabulary' = dailyVocabulary \cup rows
                /\ DailyRespond(r, u, d, 200, "", out.topic,
                       { w.id : w \in rows }, { w.id : w \in rows }, 1)
    /\ UNCHANGED today
    /\ UNCHANGED <<chatVars, scan>>

\* midnight (UTC): new Date().toISOString().split('T')[0] changes
Tick ==
    /\ today < MaxDay
    /\ today' = today + 1
    /\ UNCHANGED <<dailyVocabulary, daily>>
    /\ UNCHANGED <<chatVars, scan>>

(***************************************************************************)
(* Specifications.  The chat side and the daily side share no table, so    *)
(* every behaviour of Spec is a behaviour of SpecChat on chatVars and of   *)
(* SpecDaily on dailyVars; each side is checked on its own.                *)
(***************************************************************************)
Init ==
    /\ conversations = {}
    /\ nextConv = 0
    /\ messages = {}
    /\ vocabulary = {}
    /\ post = [r \in Posts |-> IdlePost]
    /\ prevVocab = [c \in ConvIds |-> NoText]
    /\ today = 1
    /\ dailyVocabulary = {}
    /\ daily = [r \in Dailies |-> IdleDaily]
    /\ scan = NoScan

\* n rows of user u1 and day 1 found in daily_vocabulary when the
\* server starts: the table outlives the process, and the handler tests
\* for 5 or more rows, not for any
StoredDaily(n) ==
    { [id |-> <<0, k>>, userId |-> "u1",
       latvianWord |-> FoodWords[k].latvian,
       englishTranslation |-> FoodWords[k].english,
       context |-> FoodWords[k].context,
       topic |-> "Food", date |-> 1] : k \in 1..n }

\* the server starts on a daily_vocabulary table that holds no row or a
\* partial set of one user's day
InitStored ==
    /\ conversations = {}
    /\ nextConv = 0
    /\ messages = {}
    /\ vocabulary = {}
    /\ post = [r \in Posts |-> IdlePost]
    /\ prevVocab = [c \in ConvIds |-> NoText]
    /\ today = 1
    /\ \E n \in 0..(DailyCacheThreshold - 1) : dailyVocabulary = StoredDaily(n)
    /\ daily = [r \in Dailies |-> IdleDaily]
    /\ scan = NoScan

AudioInputs == {"none", "ok", "tooLarge", "transcribeThrows"}

\* every step of the chat side but the arrival of a message request
ChatRest ==
    \/ \E u \in Users : CreateConversation(u)
    \/ \E r \in Posts : PostSaveUser(r)
    \/ \E r \in Posts, generated \in TutorTexts, callThrows \in BOOLEAN,
          dbThrows \in BOOLEAN :
           PostSaveAssistant(r, generated, callThrows, dbThrows)
    \/ \E r \in Posts, dbThrows \in BOOLEAN : PostVocabRead(r, dbThrows)
    \/ \E r \in Posts, dbThrows \in BOOLEAN : PostVocabInsert(r, dbThrows)
    \/ \E r \in Posts, dbThrows \in BOOLEAN : PostTouch(r, dbThrows)
    \/ \E u \in Users, id \in ConvIds : DeleteConversation(u, id)
    \/ \E u \in Users, v \in vocabulary : DeleteVocabulary(u, v)

ChatNext ==
    \/ \E r \in Posts, u \in Users, id \in ConvIds, audio \in AudioInputs :
           PostStart(r, u, id, audio)
    \/ ChatRest

\* a message request on conversation id has arrived and not yet responded
PostInFlight(id) ==
    \E r \in Posts : post[r].pc \notin {"idle", "done"} /\ post[r].id = id

\* message requests on one conversation arrive one after the other
ChatSeqNext ==
    \/ \E r \in Posts, u \in Users, id \in ConvIds, audio \in AudioInputs :
           ~PostInFlight(id) /\ PostStart(r, u, id, audio)
    \/ ChatRest

\* the insert can only throw in a request that gets as far as the insert
InsertFaults(out) ==
    IF out.kind \notin {"throws", "notJson"} /\ ValidStructure(out)
    THEN BOOLEAN
    ELSE {FALSE}

\* every step of the daily side but the arrival of a request
DailyRest ==
    \/ \E r \in Dailies, out \in DailyOutcomes :
           \E dbThrows \in InsertFaults(out) : DailyGenerate(r, out, dbThrows)
    \/ Tick

DailyNext ==
    \/ \E r \in Dailies, u \in Users, dbThrows \in BOOLEAN :
           DailyQuery(r, u, dbThrows)
    \/ DailyRest

\* a daily request of user u for day d has queried and not yet responded
DailyInFlight(u, d) ==
    \E r \in Dailies :
        daily[r].pc = "generate" /\ daily[r].userId = u /\ daily[r].date = d

\* daily requests of one user and day arrive one after the other
DailySeqNext ==
    \/ \E r \in Dailies, u \in Users, dbThrows \in BOOLEAN :
           ~DailyInFlight(u, today) /\ DailyQuery(r, u, dbThrows)
    \/ DailyRest

\* both sides with every storage statement and every generation call
\* succeeding, typed messages only, no deletion: the steps that store rows
\* and the steps that read them
ShareNext ==
    \/ \E u \in Users : CreateConversation(u)
    \/ \E r \in Posts, u \in Users, id \in ConvIds :
           PostStart(r, u, id, "none")
    \/ \E r \in Posts : PostSaveUser(r)
    \/ \E r \in Posts : PostSaveAssistant(r, TextParen, FALSE, FALSE)
    \/ \E r \in Posts : PostVocabRead(r, FALSE)
    \/ \E r \in Posts : PostVocabInsert(r, FALSE)
    \/ \E r \in Posts : PostTouch(r, FALSE)
    \/ \E r \in Dailies, u \in Users : DailyQuery(r, u, FALSE)
    \/ \E r \in Dailies :
           DailyGenerate(r, Parsed("Food", TRUE, FoodWords), FALSE)
    \/ Tick

Next == ChatNext \/ DailyNext

Spec == Init /\ [][Next]_vars

SpecChat == Init /\ [][ChatNext]_vars

SpecChatSeq == Init /\ [][ChatSeqNext]_vars

SpecDaily == Init /\ [][DailyNext]_vars

SpecDailySeq == Init /\ [][DailySeqNext]_vars

SpecShare == Init /\ [][ShareNext]_vars

\* the daily side, requests of one user and day one after the other, on
\* a table that may hold a partial set at the start
SpecDailyStored == InitStored /\ [][DailySeqNext]_vars

(***************************************************************************)
(* extractVocabulary, one loop iteration at a time.  scan holds the text,  *)
(* the loop the call is in, the lastIndex of that loop's regex, the        *)
(* vocabulary array and the seen set; starts records, for each pair of     *)
(* the array, the index of the match that pushed it.                       *)
(***************************************************************************)
\* pieces a text is put together from
Pieces ==
    { <<"a">>, <<"a", "b">>, <<" ">>, <<",">>, <<"-">>, <<"(">>, <<")">>,
      <<"a_macron">>, <<"(", "b", ")">>, <<"(", "c", "d", ")">>,
      <<"-", "c", "d">> }

\* pieces in a text
MaxPieces == 4

RECURSIVE Concat(_)
Concat(ps) == IF ps = << >> THEN << >> ELSE Head(ps) \o Concat(Tail(ps))

\* "suns" + " " + separator + " " + "dog"
SeparatorText(c) ==
    << "s", "u", "n", "s", " ", c, " ", "d", "o", "g" >>

\* hyphen, en dash, em dash, rightwards arrow
SeparatorChars == {"-", "endash", "emdash", "arrow"}

\* "m\u0101ja (house)"
TextMaja ==
    << "m", "a_macron", "j", "a", " ", "(", "h", "o", "u", "s", "e", ")" >>

\* "labr\u012bt - good morning. K\u0101 tev iet?"
TextLabrit ==
    << "l", "a", "b", "r", "i_macron", "t", " ", "-", " ", "g", "o", "o", "d",
       " ", "m", "o", "r", "n", "i", "n", "g", ".", " ", "K", "a_macron", " ",
       "t", "e", "v", " ", "i", "e", "t", "?" >>

\* "es (I am here now), tu - you are here now, vins - he is here"
TextTokens ==
    << "e", "s", " ", "(", "I", " ", "a", "m", " ", "h", "e", "r", "e", " ",
       "n", "o", "w", ")", ",", " " >> \o
    << "t", "u", " ", "-", " ", "y", "o", "u", " ", "a", "r", "e", " ",
       "h", "e", "r", "e", " ", "n", "o", "w", ",", " " >> \o
    << "v", "i", "n", "s", " ", "-", " ", "h", "e", " ", "i", "s", " ",
       "h", "e", "r", "e" >>

\* texts with the separators, the letters and the token counts of the
\* extractor's documented cases
ExampleTexts ==
    { SeparatorText(c) : c \in SeparatorChars }
        \cup {TextMaja, TextLabrit, TextTokens}

\* the texts extractVocabulary is called with: every text of up to
\* MaxPieces pieces (the empty text among them), the tutor texts and the
\* example texts
ScanTexts ==
    { Concat(ps) : ps \in UNION { [1..n -> Pieces] : n \in 0..MaxPieces } }
        \cup TutorTexts \cup {MockResponse} \cup ExampleTexts

\* the call's locals as it enters the pattern1 loop
StartScan(text) ==
    [pc |-> "pattern1", text |-> text, lastIndex |-> 0, vocabulary |-> << >>,
     seen |-> {}, starts |-> << >>]

\* scan after a loop body ran on match m and left acc, the loop going on
Scanned(m, acc) ==
    [scan EXCEPT !.lastIndex = m.last,
                 !.vocabulary = acc.vocabulary,
                 !.seen = acc.seen,
                 !.starts = IF Len(acc.vocabulary) > Len(scan.vocabulary)
                            THEN Append(scan.starts, m.index)
                            ELSE scan.starts]

\* a pattern1 without the g flag: exec leaves lastIndex at 0
ScanPattern1NoGlobal ==
    /\ scan.pc = "pattern1"
    /\ LET m == Exec1(scan.text, scan.lastIndex)
           acc == [vocabulary |-> scan.vocabulary, seen |-> scan.seen]
       IN  IF m.found
           THEN scan' = [Scanned(m, Accept(scan.text, m, acc))
                            EXCEPT !.lastIndex = 0]
           ELSE scan' = [scan EXCEPT !.pc = "pattern2", !.lastIndex = 0]
    /\ UNCHANGED <<chatVars, dailyVars>>

\* lines 84-105: one evaluation of the while condition of the pattern1 loop
\* and, on a match, of its body
ScanPattern1 ==
    /\ scan.pc = "pattern1"
    /\ LET m == Exec1(scan.text, scan.lastIndex)
           acc == [vocabulary |-> scan.vocabulary, seen |-> scan.seen]
       IN  IF m.found
           THEN scan' = Scanned(m, Accept(scan.text, m, acc))
           ELSE scan' = [scan EXCEPT !.pc = "pattern2", !.lastIndex = 0]
    /\ UNCHANGED <<chatVars, dailyVars>>

\* lines 108-136: one evaluation of the while condition of the pattern2 loop
\* and, on a match, of its body; without a match the function returns
ScanPattern2 ==
    /\ scan.pc = "pattern2"
    /\ LET m == Exec2(scan.text, scan.lastIndex)
           acc == [vocabulary |-> scan.vocabulary, seen |-> scan.seen]
       IN  IF m.found
           THEN scan' = Scanned(m, IF TooManyTokens(trim(m.g2)) THEN acc
                                   ELSE Accept(scan.text, m, acc))
           ELSE scan' = [scan EXCEPT !.pc = "returned", !.lastIndex = 0]
    /\ UNCHANGED <<chatVars, dailyVars>>

\* lines 76-81: extractVocabulary is called with a text
ScanStart(text) ==
    /\ scan.pc = "idle"
    /\ scan' = StartScan(text)
    /\ UNCHANGED <<chatVars, dailyVars>>

ExtractNext ==
    \/ scan.pc = "idle" /\ \E text \in ScanTexts : ScanStart(text)
    \/ ScanPattern1
    \/ ScanPattern2

\* one call of extractVocabulary on any of the texts, nothing else going on
SpecExtract == Init /\ [][ExtractNext]_vars

\* the array the loops leave is the one the function computes in one go
ScanAgrees ==
    scan.pc = "returned" => scan.vocabulary = extractVocabulary(scan.text)

(***************************************************************************)
(* Properties.                                                             *)
(***************************************************************************)
\* word and translation of a stored row and of a pair agree up to case
SamePair(v, w) ==
    /\ toLowerCase(v.latvianWord) = toLowerCase(w.latvianWord)
    /\ toLowerCase(v.englishTranslation) = toLowerCase(w.englishTranslation)

\* request r has left its vocabulary step (or responded)
PastVocab(r) == post[r].pc \in {"touch", "done"} /\ post[r].aiResponse /= NoText

\* C1: idempotence of extract-and-persist.  When a request's vocabulary step
\* runs on a conversation whose last completed vocabulary step had the same
\* tutor text, with no deletion in the conversation and no failed step in
\* between, it finds nothing new: it goes on without an insert and leaves
\* the vocabulary table as it was.
C1_SecondRunInsertsNothing ==
    [][\A r \in Posts :
          (/\ post[r].pc = "vocabRead"
           /\ post'[r].pc /= "vocabRead"
           /\ prevVocab[post[r].id] = post[r].aiResponse)
          => (/\ post'[r].pc = "touch"
              /\ post'[r].inserted = 0
              /\ vocabulary' = vocabulary)]_vars

\* C1 witness: two requests in succession on one conversation carried the
\* same text with a pair; the first inserted rows, the second read the
\* table without a throw and inserted none, nothing was deleted since.
C1_Witness ==
    \E r1, r2 \in Posts :
        /\ r1 < r2
        /\ PastVocab(r1) /\ PastVocab(r2)
        /\ post[r1].id = post[r2].id
        /\ post[r1].aiResponse = post[r2].aiResponse
        /\ post[r1].inserted > 0
        /\ post[r2].inserted = 0 /\ ~post[r2].vocabThrew
        /\ prevVocab[post[r2].id] = post[r2].aiResponse

\* C2: per-conversation uniqueness.  When the message requests on one
\* conversation do not overlap, whatever deletions interleave, no two rows
\* of one conversation carry the same lower-cased word and the same
\* lower-cased translation.
C2_UniquePerConversation ==
    \A v, w \in vocabulary :
        (v.conversationId = w.conversationId /\ SamePair(v, w)) => v = w

\* C2 witness: two requests in succession on one conversation both inserted
\* rows, the second one only the pair of its text that the first had not
\* stored, and the rows of both are in the table.
C2_Witness ==
    \E r1, r2 \in Posts :
        /\ r1 < r2
        /\ post[r1].id = post[r2].id
        /\ post[r1].inserted = 1
        /\ post[r2].aiResponse = TextTwice /\ post[r2].inserted = 1
        /\ Cardinality(ExistingVocab(post[r2].id)) = 2

\* C7: case-insensitive dedup against storage.  The filter of a vocabulary
\* step that reads without a throw keeps an extracted pair exactly when no
\* row of the same conversation has its word and translation up to letter
\* case (rows of other conversations do not count), and the insert that
\* follows stores exactly the pairs kept.
C7_CaseInsensitiveDedup ==
    [][\A r \in Posts :
          /\ (/\ post[r].pc = "vocabRead"
              /\ post'[r].pc \in {"vocabInsert", "touch"}
              /\ ~post'[r].vocabThrew)
             => \A k \in DOMAIN Extracted[post[r].aiResponse] :
                    LET pair == Extracted[post[r].aiResponse][k]
                    IN  (\E n \in DOMAIN post'[r].newVocabulary :
                             post'[r].newVocabulary[n] = pair)
                        <=> ~\E v \in vocabulary :
                                /\ v.conversationId = post[r].id
                                /\ SamePair(v, pair)
          /\ (/\ post[r].pc = "vocabInsert"
              /\ post'[r].pc = "touch"
              /\ ~post'[r].vocabThrew)
             => /\ Cardinality(vocabulary') =
                       Cardinality(vocabulary) + Len(post[r].newVocabulary)
                /\ \A n \in DOMAIN post[r].newVocabulary :
                       \E v \in vocabulary' \ vocabulary :
                           /\ v.conversationId = post[r].id
                           /\ v.latvianWord =
                                  post[r].newVocabulary[n].latvianWord
                           /\ v.englishTranslation =
                                  post[r].newVocabulary[n].englishTranslation
      ]_vars

\* C7 witness: a request whose text carried "Suns (Dog)" read the rows of
\* its conversation, which held the pair in another spelling, and inserted
\* nothing.
C7_Witness ==
    \E r \in Posts :
        /\ PastVocab(r)
        /\ post[r].aiResponse = TextCaps
        /\ post[r].inserted = 0 /\ ~post[r].vocabThrew
        /\ \E v \in ExistingVocab(post[r].id) :
               /\ SamePair(v, Extracted[TextCaps][1])
               /\ v.latvianWord /= Extracted[TextCaps][1].latvianWord
               /\ v.id[1] /= r

\* C8: the known vocabulary race.  An insert stores every pair its request
\* kept at its read, whatever the table holds by then: when a row of the
\* conversation with the same lower-cased pair was stored since the read,
\* the table holds two such rows afterwards.
C8_StaleInsertDuplicates ==
    [][\A r \in Posts :
          (/\ post[r].pc = "vocabInsert"
           /\ post'[r].pc = "touch"
           /\ ~post'[r].vocabThrew
           /\ \E n \in DOMAIN post[r].newVocabulary :
                  \E v \in ExistingVocab(post[r].id) :
                      SamePair(v, post[r].newVocabulary[n]))
          => \E v, w \in vocabulary' :
                 /\ v /= w
                 /\ v.conversationId = post[r].id
                 /\ w.conversationId = post[r].id
                 /\ SamePair(v, w)]_vars

\* C8 witness: two rows of one conversation with the same lower-cased word
\* and translation, stored by two different requests.
C8_Witness ==
    \E v, w \in vocabulary :
        /\ v.id[1] /= w.id[1]
        /\ v.conversationId = w.conversationId
        /\ SamePair(v, w)

\* the user message and the assistant message of request r are stored, the
\* assistant message under the id and with the text the response carries
BothMessagesStored(r, msgs) ==
    /\ MessageRow(r, post[r].id, "user", UserText) \in msgs
    /\ \E m \in msgs :
           /\ m.id = <<r, "assistant">>
           /\ m.role = "assistant"
           /\ m.content = post[r].aiResponse

\* C6 as stated: a request whose vocabulary read or insert threw responds
\* 200 with the tutor response and the id of the stored assistant message,
\* and its user and assistant messages are stored.
C6_AsStated ==
    \A r \in Posts :
        (post[r].pc = "done" /\ post[r].vocabThrew)
        => /\ post[r].status = 200
           /\ post[r].messageId = <<r, "assistant">>
           /\ BothMessagesStored(r, messages)

\* C6 amended: a throw of the vocabulary read or insert is caught: the step
\* sends no response, leaves messages and conversations alone and hands on
\* to the lastMessageAt update; when that update does not throw, the
\* request responds 200 with the tutor response and the id of its assistant
\* message, and both its messages are stored unless the conversation has
\* been deleted meanwhile; when the update throws, it responds 500.
C6_VocabThrowCaught ==
    [][\A r \in Posts :
          /\ (post[r].pc \in {"vocabRead", "vocabInsert"} /\ post'[r] /= post[r])
             => /\ post'[r].pc \in {"vocabInsert", "touch"}
                /\ post'[r].status = 0
                /\ messages' = messages
                /\ conversations' = conversations
          /\ (post[r].vocabThrew /\ PostTouch(r, FALSE))
             => /\ post'[r].pc = "done"
                /\ post'[r].status = 200
                /\ post'[r].aiResponse = post[r].aiResponse
                /\ post'[r].messageId = <<r, "assistant">>
                /\ (ConversationById(post[r].id) /= {}
                       => BothMessagesStored(r, messages'))
          /\ (post[r].vocabThrew /\ PostTouch(r, TRUE))
             => /\ post'[r].status = 500
                /\ post'[r].error = "Failed to generate response"
      ]_vars

\* C6 witness: a request whose vocabulary step threw has responded 200 and
\* its two messages are stored.
C6_Witness ==
    \E r \in Posts :
        /\ post[r].pc = "done"
        /\ post[r].vocabThrew
        /\ post[r].status = 200
        /\ BothMessagesStored(r, messages)

\* C3: daily set size without races.  When the requests of one user and
\* day do not overlap, every user and day has no row or exactly 5 rows,
\* whatever the generation call returns or throws.
C3_ZeroOrFiveRows ==
    \A u \in Users, d \in Days :
        Cardinality(ExistingDaily(u, d)) \in {0, 5}

\* C3 witness: a user's day holds 5 rows after one request generated them,
\* one was served from them and one failed.
C3_Witness ==
    \E u \in Users, d \in Days :
        /\ Cardinality(ExistingDaily(u, d)) = 5
        /\ \E r1, r2, r3 \in Dailies :
               /\ \A r \in {r1, r2, r3} :
                      /\ daily[r].pc = "done"
                      /\ daily[r].userId = u /\ daily[r].date = d
               /\ daily[r1].status = 500 /\ daily[r1].calls = 1
               /\ daily[r2].status = 200 /\ daily[r2].calls = 1
               /\ daily[r3].status = 200 /\ daily[r3].calls = 0

\* C4: daily set stability.  Once a request of a user for a day succeeded,
\* a later request of that user for that day (requests of one user and day
\* not overlapping) makes no generation call and inserts no row, and when
\* it responds 200 it returns the same topic and the same rows.
C4_StableDailySet ==
    \A r1, r2 \in Dailies :
        (/\ r1 < r2
         /\ daily[r1].pc = "done" /\ daily[r1].status = 200
         /\ daily[r2].pc /= "idle"
         /\ daily[r2].userId = daily[r1].userId
         /\ daily[r2].date = daily[r1].date)
        => /\ daily[r2].pc = "done"
           /\ daily[r2].calls = 0
           /\ daily[r2].inserted = {}
           /\ daily[r2].status = 200
              => /\ daily[r2].topic = daily[r1].topic
                 /\ daily[r2].words = daily[r1].words
                 /\ Cardinality(daily[r2].words) = 5

\* C4 witness: the first request of a user's day generated the set and two
\* later ones were served the same topic and rows.
C4_Witness ==
    \E r1, r2, r3 \in Dailies :
        /\ r1 < r2 /\ r2 < r3
        /\ \A r \in {r1, r2, r3} :
               /\ daily[r].pc = "done" /\ daily[r].status = 200
               /\ daily[r].userId = daily[r1].userId
               /\ daily[r].date = daily[r1].date
        /\ daily[r1].inserted /= {}
        /\ daily[r2].words = daily[r1].words
        /\ daily[r3].words = daily[r1].words

\* a generation outcome the claim lists as a failure
FailedGeneration(out) ==
    \/ out.kind = "throws"
    \/ out.kind = "notJson"
    \/ out.topic = ""
    \/ ~out.isArray
    \/ Len(out.words) /= 5

\* C5: daily set failure handling.  A generate step either responds 500
\* and leaves the table as it was, with no row of the request in it, or it
\* was not taken with any of the failures the claim lists: the generation
\* call throwing, a text that is no JSON, a parsed value without topic or
\* whose words is not an array of exactly 5 entries, a failing insert.
C5_FailureWritesNothing ==
    [][\A r \in Dailies :
          (daily[r].pc = "generate" /\ daily'[r].pc = "done")
          => \/ /\ daily'[r].status = 500
                /\ daily'[r].inserted = {}
                /\ dailyVocabulary' = dailyVocabulary
                /\ \A w \in dailyVocabulary' : w.id[1] /= r
             \/ \A out \in DailyOutcomes, dbThrows \in BOOLEAN :
                    (\/ FailedGeneration(out)
                     \/ dbThrows
                     \/ \E k \in DOMAIN out.words :
                            out.words[k].latvian = NoValue)
                    => ~DailyGenerate(r, out, dbThrows)]_vars

\* C5 witness: a request that had to generate answered 500 because the
\* parsed value was not a topic with 5 words, and no row is its own.
C5_Witness ==
    \E r \in Dailies :
        /\ daily[r].pc = "done"
        /\ daily[r].calls = 1
        /\ daily[r].status = 500
        /\ daily[r].error = "Invalid AI response format"
        /\ \A w \in dailyVocabulary : w.id[1] /= r

\* C9: the known daily-set race.  A request that found fewer than 5 rows
\* makes its own generation call and, when it succeeds, inserts its 5 rows
\* whatever the table holds by then: rows another request stored for the
\* same user and day since the query stay, and the day holds 5 more.
C9_StaleGenerateInserts ==
    [][\A r \in Dailies :
          (/\ daily[r].pc = "generate"
           /\ daily'[r].pc = "done"
           /\ daily'[r].status = 200)
          => /\ daily'[r].calls = 1
             /\ Cardinality(daily'[r].inserted) = 5
             /\ Cardinality(ExistingDaily(daily[r].userId, daily[r].date)') =
                    Cardinality(ExistingDaily(daily[r].userId, daily[r].date))
                        + 5]_vars

\* C9 witness: two requests of one user and day each made a generation
\* call and each inserted 5 rows: the day holds more than 5.
C9_Witness ==
    \E r1, r2 \in Dailies :
        /\ r1 /= r2
        /\ daily[r1].userId = daily[r2].userId
        /\ daily[r1].date = daily[r2].date
        /\ daily[r1].calls = 1 /\ Cardinality(daily[r1].inserted) = 5
        /\ daily[r2].calls = 1 /\ Cardinality(daily[r2].inserted) = 5
        /\ Cardinality(ExistingDaily(daily[r1].userId, daily[r1].date)) > 5

\* C10: every 200 response of GET /api/vocabulary/daily carries exactly 5
\* words, under any interleaving, on the cache-hit and the generate path.
C10_FiveWordsInEveryResponse ==
    \A r \in Dailies :
        (daily[r].pc = "done" /\ daily[r].status = 200)
        => Cardinality(daily[r].words) = 5

\* an answer of the generation call that is a topic with 5 complete words
ValidAnswer(out) ==
    /\ out.kind = "json"
    /\ out.topic /= ""
    /\ out.isArray
    /\ Len(out.words) = 5
    /\ \A k \in DOMAIN out.words :
           out.words[k].latvian /= NoValue /\ out.words[k].english /= NoValue

\* a request before r answered 500 for user u and day d
FailedBefore(r, u, d) ==
    \E q \in Dailies :
        /\ q < r
        /\ daily[q].pc = "done" /\ daily[q].status = 500
        /\ daily[q].userId = u /\ daily[q].date = d

\* C11: a failed generation is not cached.  After a request answered 500
\* for a user and day without rows, the next request of that user and day
\* whose select does not throw goes on to a generation call of its own;
\* when that call returns a topic with 5 words and the insert does not
\* throw, the request answers 200 and the user's day holds exactly 5 rows.
C11_FailureNotCached ==
    [][\A r \in Dailies :
          /\ (/\ daily[r].pc = "idle"
              /\ daily'[r].pc /= "idle"
              /\ FailedBefore(r, daily'[r].userId, daily'[r].date)
              /\ ExistingDaily(daily'[r].userId, daily'[r].date) = {})
             => \/ /\ daily'[r].pc = "generate"
                   /\ daily'[r].calls = 0
                \/ ~DailyQuery(r, daily'[r].userId, FALSE)
          /\ (/\ daily[r].pc = "generate"
              /\ daily'[r].pc = "done"
              /\ FailedBefore(r, daily[r].userId, daily[r].date)
              /\ ExistingDaily(daily[r].userId, daily[r].date) = {})
             => \/ /\ daily'[r].status = 200
                   /\ daily'[r].calls = 1
                   /\ Cardinality(ExistingDaily(daily[r].userId,
                                                daily[r].date)') = 5
                \/ \A out \in DailyOutcomes :
                       ValidAnswer(out) => ~DailyGenerate(r, out, FALSE)
      ]_vars

\* C11 witness: a request answered 500 after its generation call, the next
\* request of that user and day made a call of its own and answered 200,
\* and the day holds its 5 rows.
C11_Witness ==
    \E r1, r2 \in Dailies :
        /\ r1 < r2
        /\ daily[r1].pc = "done" /\ daily[r1].status = 500
        /\ daily[r1].calls = 1
        /\ daily[r2].pc = "done" /\ daily[r2].status = 200
        /\ daily[r2].calls = 1
        /\ daily[r2].userId = daily[r1].userId
        /\ daily[r2].date = daily[r1].date
        /\ ExistingDaily(daily[r2].userId, daily[r2].date) =
               { w \in dailyVocabulary : w.id \in daily[r2].inserted }
        /\ Cardinality(daily[r2].inserted) = 5

\* C19: generation calls per daily request.  A request whose select
\* returns 5 or more rows of the user's day answers from them without a
\* generation call; one whose select returns fewer goes on to exactly one
\* call, whatever that call does; one whose select throws makes none; and
\* a request that has answered does nothing more (no second call).
C19_OneCallPerRequest ==
    [][\A r \in Dailies :
          /\ (daily[r].pc = "idle" /\ daily'[r].pc /= "idle")
             => /\ daily'[r].calls = 0
                /\ \/ ~DailyQuery(r, daily'[r].userId, FALSE)
                   \/ IF Cardinality(ExistingDaily(daily'[r].userId,
                                                  today)) >= 5
                      THEN daily'[r].pc = "done" /\ daily'[r].status = 200
                      ELSE daily'[r].pc = "generate"
                /\ \/ ~DailyQuery(r, daily'[r].userId, TRUE)
                   \/ daily'[r].pc = "done" /\ daily'[r].status = 500
          /\ (daily[r].pc = "generate" /\ daily'[r] /= daily[r])
             => /\ daily'[r].pc = "done"
                /\ daily'[r].calls = 1
          /\ daily[r].pc = "done" => daily'[r] = daily[r]
      ]_vars

\* C19 witness: of three requests of one user and day, one made a call
\* that failed and made no other, one made the call that stored the set,
\* and one was served the 5 rows without a call.
C19_Witness ==
    \E r1, r2, r3 \in Dailies :
        /\ \A r \in {r1, r2, r3} :
               /\ daily[r].pc = "done"
               /\ daily[r].userId = daily[r1].userId
               /\ daily[r].date = daily[r1].date
        /\ daily[r1].status = 500 /\ daily[r1].calls = 1
        /\ daily[r1].error = "Failed to parse AI response"
        /\ daily[r2].status = 200 /\ daily[r2].calls = 1
        /\ daily[r3].status = 200 /\ daily[r3].calls = 0
        /\ Cardinality(daily[r3].words) = 5

\* C12: the extractor is total.  In either loop exec returns null or a
\* match that is not empty, starts at or after lastIndex and ends within
\* the text; on a match the loop goes round with lastIndex at the end of
\* the match, further on than it was, and on null the loop ends, the
\* second one with the return.  The array returned is no longer than the
\* text, and for the empty text it is empty.
C12_ExtractorTotal ==
    [][/\ scan.pc \in {"pattern1", "pattern2"}
          => LET m == IF scan.pc = "pattern1"
                      THEN Exec1(scan.text, scan.lastIndex)
                      ELSE Exec2(scan.text, scan.lastIndex)
             IN  /\ m.found \in BOOLEAN
                 /\ scan'.text = scan.text
                 /\ m.found
                    => /\ scan.lastIndex <= m.index
                       /\ m.index < m.last
                       /\ m.last <= Len(scan.text)
                       /\ scan'.pc = scan.pc
                       /\ scan'.lastIndex = m.last
                       /\ scan'.lastIndex > scan.lastIndex
                 /\ ~m.found
                    => scan'.pc = IF scan.pc = "pattern1" THEN "pattern2"
                                  ELSE "returned"
       /\ scan'.pc = "returned"
          => /\ Len(scan'.vocabulary) <= Len(scan'.text)
             /\ scan'.text = << >> => scan'.vocabulary = << >>]_vars

\* C12 witness: a call has returned after both of its loops went round
\* more than once: matches of both patterns put pairs into the array.
C12_Witness ==
    /\ scan.pc = "returned"
    /\ Len(scan.vocabulary) = 2
    /\ scan.starts[1] /= scan.starts[2]
    /\ scan.text \notin TutorTexts

\* "a (b)"
TextShort == << "a", " ", "(", "b", ")" >>

\* C13: every pair in the array, from either loop, has a word and a
\* translation that are trimmed and longer than one character; "a (b)"
\* yields no pair.
C13_PairsLongerThanOne ==
    /\ \A k \in DOMAIN scan.vocabulary :
           LET pair == scan.vocabulary[k]
           IN  /\ Len(pair.latvianWord) > 1
               /\ Len(pair.englishTranslation) > 1
               /\ trim(pair.latvianWord) = pair.latvianWord
               /\ trim(pair.englishTranslation) = pair.englishTranslation
    /\ (scan.pc = "returned" /\ scan.text = TextShort)
           => scan.vocabulary = << >>

\* C13 witness: "a(b)ab-cd" has returned: the pattern1 match "a(b)", with
\* word and translation of one character, gave no pair, and the pattern2
\* match "ab-cd" gave one.
C13_Witness ==
    /\ scan.pc = "returned"
    /\ scan.text = << "a", "(", "b", ")", "a", "b", "-", "c", "d" >>
    /\ Len(scan.vocabulary) = 1
    /\ scan.vocabulary[1].latvianWord = <<"a", "b">>
    /\ scan.vocabulary[1].englishTranslation = <<"c", "d">>
    /\ scan.starts = <<4>>

\* C20: the pairs returned are in the order of the places in the text
\* where their matches start, across both patterns.
C20_OrderedByPosition ==
    scan.pc = "returned"
        => \A i, j \in DOMAIN scan.starts :
               i < j => scan.starts[i] <= scan.starts[j]

\* conversation id exists and belongs to another user than u
OwnedByOther(u, id) == \E c \in ConversationById(id) : c.userId /= u

\* C14: owner-only access.  For a conversation of another user, GET
\* messages and DELETE answer 403, and a POST of a message answers 403 at
\* its owner check, leaves conversations, messages and vocabulary as they
\* were and takes no further step (no user message, no generation call);
\* a conversation is deleted only by a request of its owner.
C14_OwnerOnly ==
    [][/\ \A u \in Users, id \in ConvIds :
              /\ OwnedByOther(u, id)
                 => /\ GetMessages(u, id).status = 403
                    /\ GetMessages(u, id).messages = {}
                    /\ DeleteConversationStatus(u, id) = 403
              /\ DeleteConversation(u, id) => ~OwnedByOther(u, id)
       /\ \A r \in Posts :
              /\ (/\ post[r].pc = "idle"
                  /\ post'[r].pc /= "idle"
                  /\ OwnedByOther(post'[r].userId, post'[r].id))
                 => /\ post'[r].pc = "done"
                    /\ post'[r].status = 403
                    /\ conversations' = conversations
                    /\ messages' = messages
                    /\ vocabulary' = vocabulary
              /\ post[r].pc = "done" => post'[r] = post[r]
      ]_vars

\* C14 witness: a message request of a user on another user's conversation
\* has answered 403; the conversation is there with the messages and the
\* vocabulary of its owner's turn, and none of the request.
C14_Witness ==
    \E r \in Posts :
        /\ post[r].pc = "done" /\ post[r].status = 403
        /\ OwnedByOther(post[r].userId, post[r].id)
        /\ \E m \in messages : m.conversationId = post[r].id
        /\ \E v \in vocabulary : v.conversationId = post[r].id
        /\ \A m \in messages : m.id[1] /= r
        /\ DeleteConversationStatus(post[r].userId, post[r].id) = 403

\* conversation id was created and its row is gone
Deleted(id) == id <= nextConv /\ ConversationById(id) = {}

\* C15: deleted and unknown conversations answer 404.  A successful
\* DELETE removes the conversation row, and a row once gone stays gone;
\* for an id without a row GET messages and DELETE answer 404 for every
\* user, no DELETE acts on it, and a POST of a message answers 404 at its
\* lookup, changes no table and takes no further step.
C15_GoneIs404 ==
    [][/\ \A u \in Users, id \in ConvIds :
              /\ ConversationById(id) = {}
                 => /\ GetMessages(u, id).status = 404
                    /\ DeleteConversationStatus(u, id) = 404
                    /\ ~DeleteConversation(u, id)
              /\ DeleteConversation(u, id) => ConversationById(id)' = {}
              /\ Deleted(id) => Deleted(id)'
       /\ \A r \in Posts :
              /\ (/\ post[r].pc = "idle"
                  /\ post'[r].pc /= "idle"
                  /\ ConversationById(post'[r].id) = {})
                 => /\ post'[r].pc = "done"
                    /\ post'[r].status = 404
                    /\ conversations' = conversations
                    /\ messages' = messages
                    /\ vocabulary' = vocabulary
              /\ post[r].pc = "done" => post'[r] = post[r]
      ]_vars

\* C15 witness: a conversation that had a completed turn was deleted, and
\* a message request on it after that has answered 404.
C15_Witness ==
    \E r1, r2 \in Posts :
        /\ r1 /= r2
        /\ post[r1].pc = "done" /\ post[r1].status = 200
        /\ post[r2].pc = "done" /\ post[r2].status = 404
        /\ post[r2].id = post[r1].id
        /\ Deleted(post[r2].id)
        /\ \A u \in Users : GetMessages(u, post[r2].id).status = 404

\* the assistant message of request r with the text its response carries
AssistantRow(r, p) == MessageRow(r, p.id, "assistant", p.aiResponse)

\* C16: a chat turn by the owner.  A message request of the owner of an
\* existing conversation passes the checks and stores the user message;
\* the assistant message it stores next is a new row whose content is the
\* generated text, or the fixed fallback text when the generation call
\* throws; and when the request answers 200 it answers with that text and
\* the id of that row.  (A throw of a storage statement in the outer try,
\* or the conversation deleted under the request, ends in 500 instead.)
C16_OwnerTurnSucceeds ==
    [][\A r \in Posts :
          /\ (post[r].pc = "idle" /\ post'[r].pc /= "idle")
             => \/ post'[r].pc = "saveUser"
                \/ ~PostStart(r, post'[r].userId, post'[r].id, "none")
                \/ ConversationById(post'[r].id) = {}
                \/ OwnedByOther(post'[r].userId, post'[r].id)
          /\ (post[r].pc = "saveUser" /\ ConversationById(post[r].id) /= {})
             => (post'[r] /= post[r]
                    => /\ post'[r].pc = "saveAssistant"
                       /\ MessageRow(r, post[r].id, "user", UserText)
                              \in messages' \ messages)
          /\ (post[r].pc = "saveAssistant" /\ post'[r].pc = "vocabRead")
             => /\ AssistantRow(r, post'[r]) \in messages' \ messages
                /\ post'[r].messageId = AssistantRow(r, post'[r]).id
                /\ \A generated \in TutorTexts :
                       /\ PostSaveAssistant(r, generated, FALSE, FALSE)
                          => post'[r].aiResponse = generated
                       /\ PostSaveAssistant(r, generated, TRUE, FALSE)
                          => post'[r].aiResponse = MockResponse
          /\ (post[r].pc = "touch" /\ post'[r].pc = "done")
             => \/ /\ post'[r].status = 200
                   /\ post'[r].aiResponse = post[r].aiResponse
                   /\ post'[r].messageId = AssistantRow(r, post[r]).id
                   /\ ConversationById(post[r].id) /= {}
                         => AssistantRow(r, post[r]) \in messages'
                \/ ~PostTouch(r, FALSE)
      ]_vars

\* C16 witness: a request whose generation call threw has answered 200
\* with the fallback text, and its assistant message holds that text.
C16_Witness ==
    \E r \in Posts :
        /\ post[r].pc = "done" /\ post[r].status = 200
        /\ post[r].aiResponse = MockResponse
        /\ post[r].messageId = <<r, "assistant">>
        /\ AssistantRow(r, post[r]) \in messages
        /\ MessageRow(r, post[r].id, "user", UserText) \in messages

\* no message and no vocabulary row references conversation id
Unreferenced(id, msgs, vocab) ==
    /\ \A m \in msgs : m.conversationId /= id
    /\ \A v \in vocab : v.conversationId /= id

\* C18: cascade on conversation deletion.  After a successful DELETE no
\* message row and no vocabulary row references the conversation, and
\* after every step, whatever message requests are in flight, every
\* message row and every vocabulary row references a conversation that
\* exists.
C18_CascadeAndReferences ==
    [][/\ \A u \in Users, id \in ConvIds :
              DeleteConversation(u, id)
                  => /\ ConversationById(id)' = {}
                     /\ Unreferenced(id, messages', vocabulary')
       /\ \A m \in messages' : ConversationById(m.conversationId)' /= {}
       /\ \A v \in vocabulary' : ConversationById(v.conversationId)' /= {}
      ]_vars

\* C18 witness: a conversation was deleted under a message request that
\* had stored its messages and read the vocabulary; the insert that came
\* after was refused, and no row references the conversation.
C18_Witness ==
    \E r \in Posts :
        /\ post[r].pc = "done"
        /\ post[r].vocabThrew
        /\ post[r].messageId = <<r, "assistant">>
        /\ Deleted(post[r].id)
        /\ Unreferenced(post[r].id, messages, vocabulary)
        /\ \E v \in vocabulary : TRUE

\* the rows of daily_vocabulary a response of request r carries
DailyResponseRows(r) == { w \in dailyVocabulary : w.id \in daily[r].words }

\* C17: no sharing across users.  After every step, the response of GET
\* /api/vocabulary and a 200 response of GET /api/conversations/:id/
\* vocabulary hold only rows of the requesting user, for every user and
\* conversation; a 200 response of GET /api/vocabulary/daily carries only
\* rows of its user and day; and a daily query answers from the cache
\* only when 5 or more rows of its own user and day exist, whatever rows
\* of other users and days the table holds.
C17_NoSharing ==
    [][/\ \A u \in Users :
              /\ \A v \in GetVocabulary(u).items' : v.userId = u
              /\ \A id \in ConvIds :
                     \A v \in GetConversationVocabulary(u, id).items' :
                         v.userId = u
       /\ \A r \in Dailies :
              /\ (daily'[r].pc = "done" /\ daily'[r].status = 200)
                 => /\ DailyResponseRows(r)' /= {}
                    /\ \A w \in DailyResponseRows(r)' :
                           /\ w.userId = daily'[r].userId
                           /\ w.date = daily'[r].date
              /\ (/\ daily[r].pc = "idle"
                  /\ daily'[r].pc = "done"
                  /\ daily'[r].status = 200)
                 => Cardinality({ w \in dailyVocabulary :
                                     /\ w.userId = daily'[r].userId
                                     /\ w.date = today }) >= 5
      ]_vars

\* C17 witness: both users have vocabulary rows and daily rows of the
\* first day, one of them has daily rows of the second day as well, and
\* each of the three daily requests made its own generation call.
C17_Witness ==
    /\ \A u \in Users :
           /\ GetVocabulary(u).items /= {}
           /\ \E w \in dailyVocabulary : w.userId = u /\ w.date = 1
    /\ \E w \in dailyVocabulary : w.date = 2
    /\ \A r \in Dailies :
           daily[r].pc = "done" /\ daily[r].status = 200 /\ daily[r].calls = 1

\* the pair (word, translation) is in the array
HasPair(vocab, word, translation) ==
    \E i \in DOMAIN vocab :
        /\ vocab[i].latvianWord = word
        /\ vocab[i].englishTranslation = translation

\* C21: each of the four characters hyphen, en dash, em dash and
\* rightwards arrow is a pattern2 separator: the call on "suns", a space,
\* the character, a space, "dog" returns the pair (suns, dog).
C21_FourSeparators ==
    \A c \in SeparatorChars :
        (scan.pc = "returned" /\ scan.text = SeparatorText(c))
            => HasPair(scan.vocabulary, <<"s", "u", "n", "s">>,
                       <<"d", "o", "g">>)

\* C22: words with letters outside ASCII are extracted whole: the call on
\* "m\u0101ja (house)" returns exactly the pair (m\u0101ja, house), and
\* the call on "labr\u012bt - good morning. K\u0101 tev iet?" returns
\* exactly the pair (labr\u012bt, good morning).
C22_NonAsciiWordsWhole ==
    /\ (scan.pc = "returned" /\ scan.text = TextMaja)
           => /\ Len(scan.vocabulary) = 1
              /\ HasPair(scan.vocabulary, <<"m", "a_macron", "j", "a">>,
                         <<"h", "o", "u", "s", "e">>)
    /\ (scan.pc = "returned" /\ scan.text = TextLabrit)
           => /\ Len(scan.vocabulary) = 1
              /\ HasPair(scan.vocabulary,
                         <<"l", "a", "b", "r", "i_macron", "t">>,
                         <<"g", "o", "o", "d", " ",
                           "m", "o", "r", "n", "i", "n", "g">>)

\* the whitespace-separated tokens of s: its maximal runs of characters
\* that are no whitespace
Tokens(s) ==
    Cardinality({ i \in DOMAIN s :
                    /\ s[i] \notin SpaceChars
                    /\ (i = 1 \/ s[i - 1] \in SpaceChars) })

\* the array holds a pair with this word and translation, up to case
Holds(vocab, word, translation) ==
    \E i \in DOMAIN vocab :
        /\ toLowerCase(vocab[i].latvianWord) = toLowerCase(word)
        /\ toLowerCase(vocab[i].englishTranslation) = toLowerCase(translation)

\* the step pushed exactly the pair (word, translation) onto the array
Pushed(word, translation) ==
    /\ Len(scan'.vocabulary) = Len(scan.vocabulary) + 1
    /\ SubSeq(scan'.vocabulary, 1, Len(scan.vocabulary)) = scan.vocabulary
    /\ scan'.vocabulary[Len(scan'.vocabulary)].latvianWord = word
    /\ scan'.vocabulary[Len(scan'.vocabulary)].englishTranslation = translation

\* C23: the token-count heuristic.  A pattern2 match whose trimmed
\* translation has more than 3 whitespace-separated tokens pushes
\* nothing; one of 1, 2 or 3 tokens is pushed when word and translation
\* are longer than one character and the array does not hold the pair yet.
\* A pattern1 match is pushed under the same two conditions whatever the
\* number of tokens of its translation.
C23_TokenHeuristic ==
    [][/\ (scan.pc = "pattern2" /\ scan'.pc = "pattern2")
          => LET m == Exec2(scan.text, scan.lastIndex)
                 word == trim(m.g1)
                 translation == trim(m.g2)
             IN  /\ Tokens(translation) > 3
                        => scan'.vocabulary = scan.vocabulary
                 /\ (/\ Tokens(translation) <= 3
                     /\ Len(word) > 1 /\ Len(translation) > 1
                     /\ ~Holds(scan.vocabulary, word, translation))
                        => Pushed(word, translation)
       /\ (scan.pc = "pattern1" /\ scan'.pc = "pattern1")
          => LET m == Exec1(scan.text, scan.lastIndex)
                 word == trim(m.g1)
                 translation == trim(m.g2)
             IN  (/\ Len(word) > 1 /\ Len(translation) > 1
                  /\ ~Holds(scan.vocabulary, word, translation))
                     => Pushed(word, translation)
      ]_vars

\* C23 witness: the call on "es (I am here now), tu - you are here now,
\* vins - he is here" has returned the pattern1 pair of 4 tokens and the
\* pattern2 pair of 3 tokens, and not the pattern2 match of 4 tokens.
C23_Witness ==
    /\ scan.pc = "returned"
    /\ scan.text = TextTokens
    /\ Len(scan.vocabulary) = 2
    /\ scan.vocabulary[1].latvianWord = <<"e", "s">>
    /\ Tokens(scan.vocabulary[1].englishTranslation) = 4
    /\ scan.vocabulary[2].latvianWord = <<"v", "i", "n", "s">>
    /\ Tokens(scan.vocabulary[2].englishTranslation) = 3

\* C24: dedup within one call.  After every step of a call no two pairs
\* of the array agree in lower-cased word and lower-cased translation,
\* whichever loop pushed them, and a step leaves the pairs pushed before
\* it as they were: of the matches with one key, the pair kept is the
\* first one accepted, with its spelling and context.
C24_WithinCallDedup ==
    [][scan'.pc \in {"pattern1", "pattern2", "returned"}
          => /\ \A i, j \in DOMAIN scan'.vocabulary :
                    (/\ toLowerCase(scan'.vocabulary[i].latvianWord)
                          = toLowerCase(scan'.vocabulary[j].latvianWord)
                     /\ toLowerCase(scan'.vocabulary[i].englishTranslation)
                          = toLowerCase(scan'.vocabulary[j].englishTranslation))
                        => i = j
             /\ scan.pc \in {"pattern1", "pattern2"}
                    => /\ Len(scan'.vocabulary) >= Len(scan.vocabulary)
                       /\ SubSeq(scan'.vocabulary, 1, Len(scan.vocabulary))
                              = scan.vocabulary
      ]_vars

\* C24 witness: the call on "Suns - dog, suns (dog), maja (house)" has
\* returned; the pattern2 match "Suns - dog" came after the pattern1 match
\* "suns (dog)" with the same key and was dropped: the pair kept is
\* spelled "suns" and has the context of the whole text.
C24_Witness ==
    /\ scan.pc = "returned"
    /\ scan.text = TextTwice
    /\ Len(scan.vocabulary) = 2
    /\ scan.vocabulary[1].latvianWord = <<"s", "u", "n", "s">>
    /\ scan.vocabulary[1].englishTranslation = <<"d", "o", "g">>
    /\ scan.vocabulary[1].context = TextTwice
    /\ scan.starts[1] = 12

DroppedPairs(r, kept) ==
    { Extracted[post[r].aiResponse][i] :
        i \in { n \in DOMAIN Extracted[post[r].aiResponse] :
                  \A k \in DOMAIN kept :
                      kept[k] /= Extracted[post[r].aiResponse][n] } }

\* a row of conversation id in table vocab has the pair's lower-cased word
\* and translation
StoredIn(vocab, id, pair) ==
    \E v \in vocab : v.conversationId = id /\ SamePair(v, pair)

\* C26 as stated: when a request finishes its vocabulary step without a
\* throw, on a conversation that is still there, every extracted pair its
\* filter dropped has a row with the same lower-cased word and translation
\* in the conversation's stored vocabulary at that moment.
C26_DroppedPairStoredAtFinish ==
    [][\A r \in Posts :
          (/\ post[r].pc \in {"vocabRead", "vocabInsert"}
           /\ post'[r].pc = "touch"
           /\ ~post'[r].vocabThrew
           /\ ConversationById(post[r].id)' /= {})
          => \A pair \in DroppedPairs(r, post[r].newVocabulary) :
                 StoredIn(vocabulary', post[r].id, pair)]_vars

\* C26 amended: when a request's read-and-filter step drops an extracted
\* pair, a row with the same lower-cased word and translation is in the
\* conversation's stored vocabulary at the read; a pair absent from
\* storage at the read is never dropped.
C26_DroppedPairStoredAtRead ==
    [][\A r \in Posts :
          (/\ post[r].pc = "vocabRead"
           /\ post'[r].pc \in {"vocabInsert", "touch"}
           /\ ~post'[r].vocabThrew)
          => \A pair \in DroppedPairs(r, post'[r].newVocabulary) :
                 StoredIn(vocabulary, post[r].id, pair)]_vars

\* C26 witness: a request on "Suns - dog, suns (dog), maja (house)"
\* dropped (suns, dog) at its read and inserted (maja, house) alone; the
\* conversation is there and holds no (suns, dog) row any more.
C26_Witness ==
    \E r \in Posts :
        /\ post[r].pc \in {"touch", "done"}
        /\ post[r].aiResponse = TextTwice
        /\ post[r].inserted = 1
        /\ ~post[r].vocabThrew
        /\ ConversationById(post[r].id) /= {}
        /\ ~StoredIn(vocabulary, post[r].id, Extracted[TextTwice][1])
        /\ StoredIn(vocabulary, post[r].id, Extracted[TextTwice][2])

\* the ids a vocabulary row can have
VocabularyIds == { <<r, k>> : r \in Posts, k \in 1..2 }

\* C27: deleting a vocabulary entry is owner-only and touches one row.
\* DELETE /api/vocabulary/:id answers 404 for an id without a row and 403
\* for a row of another user, and no delete is carried out on it then; a
\* delete that is carried out is the owner's, answers success, removes
\* the row with that id and no other, and leaves conversations and
\* messages as they were.
C27_DeleteOneOwnRow ==
    [][/\ \A u \in Users, id \in VocabularyIds :
              /\ VocabularyById(id) = {}
                     => DeleteVocabularyStatus(u, id) = 404
              /\ \A v \in VocabularyById(id) :
                     /\ v.userId /= u
                            => /\ DeleteVocabularyStatus(u, id) = 403
                               /\ ~DeleteVocabulary(u, v)
                     /\ v.userId = u => DeleteVocabularyStatus(u, id) = 200
       /\ \A u \in Users, v \in vocabulary :
              DeleteVocabulary(u, v)
                  => /\ v.userId = u
                     /\ vocabulary' = vocabulary \ {v}
                     /\ VocabularyById(v.id)' = {}
                     /\ conversations' = conversations
                     /\ messages' = messages
      ]_vars

\* C27 witness: of the two rows a request stored in a conversation that is
\* still there, one was deleted and answers 404 now; the other is stored,
\* answers 403 to the other user and 200 to its owner.
C27_Witness ==
    \E r \in Posts :
        /\ post[r].inserted = 2
        /\ ConversationById(post[r].id) /= {}
        /\ VocabularyById(<<r, 1>>) = {}
        /\ \A u \in Users : DeleteVocabularyStatus(u, <<r, 1>>) = 404
        /\ \E v \in VocabularyById(<<r, 2>>) :
               /\ DeleteVocabularyStatus(v.userId, v.id) = 200
               /\ \E u \in Users :
                      u /= v.userId /\ DeleteVocabularyStatus(u, v.id) = 403

\* C28: row ownership matches the conversation.  In every reachable state
\* every vocabulary row references a conversation that is there, and the
\* row's userId is that conversation's userId.
C28_RowOwnerIsConversationOwner ==
    \A v \in vocabulary :
        /\ ConversationById(v.conversationId) /= {}
        /\ \A c \in ConversationById(v.conversationId) : c.userId = v.userId

\* C28 witness: a conversation holds vocabulary rows of its owner's turn,
\* and a message request of the other user on it has answered 403.
C28_Witness ==
    \E r \in Posts :
        /\ post[r].pc = "done" /\ post[r].status = 403
        /\ \E v \in vocabulary :
               /\ v.conversationId = post[r].id
               /\ v.userId /= post[r].userId
               /\ \E c \in ConversationById(post[r].id) : c.userId = v.userId

\* the messages of conversation id with the given role
MessagesOf(id, role) ==
    { m \in messages : m.conversationId = id /\ m.role = role }

\* C29: message pairing.  In every reachable state, whatever the
\* interleaving of message requests, every conversation has at most as
\* many assistant messages as user messages.
C29_AssistantAtMostUser ==
    \A id \in ConvIds :
        Cardinality(MessagesOf(id, "assistant"))
            <= Cardinality(MessagesOf(id, "user"))

\* C29 witness: a conversation with two user messages and one assistant
\* message, both requests having responded: one turn completed and one
\* failed after its user message was stored.
C29_Witness ==
    \E id \in ConvIds :
        /\ Cardinality(MessagesOf(id, "user")) = 2
        /\ Cardinality(MessagesOf(id, "assistant")) = 1
        /\ \A r \in Posts : post[r].pc = "done" /\ post[r].id = id

\* C30: a chat turn is not atomic on failure.  The step in which a
\* request answers 500 "Failed to generate response" changes no row of
\* conversations, messages or vocabulary (nothing is rolled back, and
\* lastMessageAt is neither reset nor advanced); while the conversation is
\* there, the user message the request stored is still stored after that
\* step; and a request that has answered takes no further step.
C30_FailureKeepsUserMessage ==
    [][\A r \in Posts :
          /\ (/\ post[r].pc /= "done"
              /\ post'[r].pc = "done"
              /\ post'[r].status = 500
              /\ post'[r].error = "Failed to generate response")
             => /\ post[r].pc \in {"saveAssistant", "touch"}
                /\ messages' = messages
                /\ conversations' = conversations
                /\ vocabulary' = vocabulary
                /\ ConversationById(post[r].id)' /= {}
                       => MessageRow(r, post[r].id, "user", UserText)
                              \in messages'
          /\ post[r].pc = "done" => post'[r] = post[r]
      ]_vars

\* C30 witness: a request has answered 500 "Failed to generate response"
\* at the lastMessageAt update; its user message, its assistant message
\* and a vocabulary row of it are stored, and lastMessageAt of its
\* conversation is still NULL.
C30_Witness ==
    \E r \in Posts :
        /\ post[r].pc = "done"
        /\ post[r].status = 500
        /\ post[r].error = "Failed to generate response"
        /\ MessageRow(r, post[r].id, "user", UserText) \in messages
        /\ \E m \in messages : m.id = <<r, "assistant">>
        /\ \E v \in vocabulary : v.id[1] = r
        /\ \E c \in ConversationById(post[r].id) : c.lastMessageAt = 0
============================================================================
